---- MODULE Spec2Model ----
(***************************************************************************)
(* A model of the typed address/offset algebra and the page buffer helper  *)
(* of the primordial crate: Address<T, U>, Offset<T, U>, Page and Pages.   *)
(*                                                                         *)
(* Integer widths are scaled down so that every value of a width can be    *)
(* enumerated: u32 has U32Bits bits and u64 has U64Bits bits (strictly     *)
(* wider), usize is one or the other according to target_pointer_width.    *)
(* Rust's `+ - *` either panic on overflow (overflow checks on, the debug  *)
(* profile) or wrap modulo 2^w (overflow checks off, the release profile); *)
(* both builds are modelled and the build is chosen in Init.               *)
(***************************************************************************)
EXTENDS Integers, Sequences, FiniteSets, TLC

VARIABLES target, usize_bits, overflow_checks, addr, last, inv, pages, conv

vars == <<target, usize_bits, overflow_checks, addr, last, inv, pages, conv>>

(***************************************************************************)
(* Bounds of the model.                                                    *)
(***************************************************************************)
\* scaled bit width of u32 (u64 is two bits wider)
U32Bits == 4
\* scaled bit width of usize on a 32-bit target in the Pages specification,
\* wide enough for a buffer of one 4096-byte page (one bit more on a 64-bit
\* target)
PagesUsizeBits == 14
\* longest data slice handed to Pages::copy / Pages::copy_into
MaxDataLen == 3

\* longest chain of width conversions applied to one value
MaxHops == 3

U64Bits == U32Bits + 2

RECURSIVE Pow2(_)
Pow2(n) == IF n = 0 THEN 1 ELSE 2 * Pow2(n - 1)

(***************************************************************************)
(* Machine integers.                                                       *)
(***************************************************************************)
Targets == {32, 64}

IntTypes == {"u32", "usize", "u64"}

Bits(T) ==
    CASE T = "u32" -> U32Bits
      [] T = "u64" -> U64Bits
      [] T = "usize" -> usize_bits

Modulus(T) == Pow2(Bits(T))

MaxOf(T) == Modulus(T) - 1

Values(T) == 0 .. MaxOf(T)

\* `value as T`: keeps the low Bits(T) bits
as_cast(T, v) == v % Modulus(T)

Ok(v) == [ok |-> TRUE, v |-> v]

Panic == [ok |-> FALSE, v |-> 0]

\* The operators take the results of their operand expressions, left
\* operand first: a panic in an operand is the result of the expression.
add(T, x, y) ==
    IF ~x.ok THEN x ELSE IF ~y.ok THEN y
    ELSE IF x.v + y.v > MaxOf(T)
    THEN IF overflow_checks THEN Panic ELSE Ok((x.v + y.v) % Modulus(T))
    ELSE Ok(x.v + y.v)

sub(T, x, y) ==
    IF ~x.ok THEN x ELSE IF ~y.ok THEN y
    ELSE IF x.v < y.v
    THEN IF overflow_checks THEN Panic ELSE Ok((x.v - y.v) % Modulus(T))
    ELSE Ok(x.v - y.v)

mul(T, x, y) ==
    IF ~x.ok THEN x ELSE IF ~y.ok THEN y
    ELSE IF x.v * y.v > MaxOf(T)
    THEN IF overflow_checks THEN Panic ELSE Ok((x.v * y.v) % Modulus(T))
    ELSE Ok(x.v * y.v)

\* integer division panics on a zero divisor in every build
div(T, x, y) ==
    IF ~x.ok THEN x ELSE IF ~y.ok THEN y
    ELSE IF y.v = 0 THEN Panic ELSE Ok(x.v \div y.v)

(***************************************************************************)
(* Tag types U: what the code reads of a tag is align_of and size_of.      *)
(* The size of a Rust type is a multiple of its alignment, which is a      *)
(* power of two; a zero-sized type may have any alignment.                 *)
(***************************************************************************)
Unit == [align |-> 1, size |-> 0]

TagTypes ==
    { Unit,
      [align |-> 1, size |-> 1],
      [align |-> 2, size |-> 2],
      [align |-> 4, size |-> 4],
      [align |-> 8, size |-> 8],
      [align |-> 1, size |-> 3],
      [align |-> 2, size |-> 6],
      [align |-> 4, size |-> 0] }

align_of(U) == U.align

size_of(U) == U.size

(***************************************************************************)
(* Width conversions, compiled per target_pointer_width.                   *)
(***************************************************************************)
AddressFrom ==
    { p \in IntTypes \X IntTypes :
        \/ p = <<"u64", "usize">> /\ target = 64
        \/ p = <<"usize", "u64">> /\ target \in {32, 64}
        \/ p = <<"u32", "usize">> /\ target \in {32, 64}
        \/ p = <<"usize", "u32">> /\ target = 32 }

OffsetFrom ==
    { p \in IntTypes \X IntTypes :
        \/ p = <<"u64", "usize">> /\ target = 64
        \/ p = <<"usize", "u64">> /\ target \in {32, 64}
        \/ p = <<"u32", "usize">> /\ target \in {32, 64}
        \/ p = <<"usize", "u32">> /\ target = 32 }

\* the bound `Address<A, U>: Into<Address<B, U>>` (From is reflexive)
AddressInto(A, B) == A = B \/ <<A, B>> \in AddressFrom

\* the bound `Offset<A, U>: Into<Offset<B, U>>`
OffsetInto(A, B) == A = B \/ <<A, B>> \in OffsetFrom

\* a conversion that passes the value through 32 bits on every target
From_via_u32(B, v) == as_cast(B, as_cast("u32", v))

\* the body of every conversion: Self(value.0 as _, PhantomData)
From(B, v) == as_cast(B, v)

(***************************************************************************)
(* Offset                                                                  *)
(***************************************************************************)
\* bytes that returns the item count, not scaled by size_of::<U>()
bytes_items(T, items, U) == Ok(items)

\* self.0 * Offset(size_of::<U>(), PhantomData).into().items()
bytes(T, items, U) == mul(T, Ok(items), Ok(From(T, size_of(U))))

(***************************************************************************)
(* Address: the functions, on raw values.                                  *)
(***************************************************************************)
\* new with the alignment test left out
new_unchecked(value, U) == Ok(value)

\* Address::new: ok = FALSE stands for the panic "unaligned address value"
new(value, U) == IF value % align_of(U) /= 0 THEN Panic ELSE Ok(value)

\* try_cast going through a 32-bit address instead of Address<usize, _>
try_cast_narrow(T, value, V) ==
    LET a == From("u32", value)
    IN  IF a % align_of(V) /= 0 THEN Panic ELSE Ok(From(T, a))

\* Address::try_cast: Err(AlignmentError) is ok = FALSE
try_cast(T, value, V) ==
    LET a == From("usize", value)
    IN  IF a % align_of(V) /= 0 THEN Panic ELSE Ok(From(T, a))

\* raise that adds align - 1 and forgets to round
raise_unrounded(T, value, V) ==
    LET align == Ok(From(T, align_of(V)))
    IN  sub(T, add(T, Ok(value), align), Ok(1))

\* (self.0 + align - T::ONE) / align * align
raise(T, value, V) ==
    LET align == Ok(From(T, align_of(V)))
    IN  mul(T, div(T, sub(T, add(T, Ok(value), align), Ok(1)), align), align)

\* lower that divides and forgets to multiply back
lower_quotient(T, value, V) ==
    LET align == Ok(From(T, align_of(V)))
    IN  div(T, Ok(value), align)

\* self.0 / align * align
lower(T, value, V) ==
    LET align == Ok(From(T, align_of(V)))
    IN  mul(T, div(T, Ok(value), align), align)

\* Address + Offset that adds the item count instead of the byte count
add_offset_items(T, value, items, U) == add(T, Ok(value), Ok(items))

\* Address + Offset: self.0 + rhs.bytes()
add_offset(T, value, items, U) ==
    add(T, Ok(value), bytes(T, items, U))

\* Address += Offset: self.0 += rhs.bytes()
add_assign(T, value, items, U) ==
    add(T, Ok(value), bytes(T, items, U))

\* Address - Offset: self.0 - rhs.bytes()
sub_offset(T, value, items, U) ==
    sub(T, Ok(value), bytes(T, items, U))

\* Address -= Offset: self.0 -= rhs.bytes()
sub_assign(T, value, items, U) ==
    sub(T, Ok(value), bytes(T, items, U))

\* Address - Address: (self.0 - rhs.0) / Offset::from_items(T::ONE).bytes()
sub_address(T, value, rhs, U) ==
    div(T, sub(T, Ok(value), Ok(rhs)), bytes(T, 1, U))

(***************************************************************************)
(* The address state machine: one Address value and the record of the last *)
(* call made on it.                                                        *)
(***************************************************************************)
NoAddr == [live |-> FALSE, raw |-> 0, T |-> "usize", U |-> Unit]

NoCall == [op |-> "none", in |-> 0, V |-> Unit, outcome |-> "ok", out |-> 0]

NoInv == [pc |-> "off"]

NoPages == [pc |-> "off"]

NoConv == [pc |-> "off"]

Init ==
    /\ target \in Targets
    /\ usize_bits = (IF target = 32 THEN U32Bits ELSE U64Bits)
    /\ overflow_checks \in BOOLEAN
    /\ addr = NoAddr
    /\ last = NoCall
    /\ inv = NoInv
    /\ pages = NoPages
    /\ conv = NoConv

Frame == UNCHANGED <<target, usize_bits, overflow_checks, inv, pages, conv>>

\* impl From<T> for Address<T, ()>
FromRaw ==
    /\ ~addr.live
    /\ \E T \in IntTypes : \E value \in Values(T) :
        /\ addr' = [live |-> TRUE, raw |-> value, T |-> T, U |-> Unit]
        /\ last' = [op |-> "from", in |-> value, V |-> Unit,
                    outcome |-> "ok", out |-> value]
    /\ Frame

\* Address::<usize, U>::new(value)
New ==
    /\ ~addr.live
    /\ \E U \in TagTypes : \E value \in Values("usize") :
        LET r == new(value, U)
        IN  /\ addr' = IF r.ok
                       THEN [live |-> TRUE, raw |-> r.v, T |-> "usize", U |-> U]
                       ELSE addr
            /\ last' = [op |-> "new", in |-> value, V |-> U,
                        outcome |-> IF r.ok THEN "ok" ELSE "panic", out |-> r.v]
    /\ Frame

\* self.try_cast::<V>()
TryCast ==
    /\ addr.live
    /\ AddressInto(addr.T, "usize")
    /\ AddressInto("usize", addr.T)
    /\ \E V \in TagTypes :
        LET r == try_cast(addr.T, addr.raw, V)
        IN  /\ addr' = IF r.ok THEN [addr EXCEPT !.raw = r.v, !.U = V] ELSE addr
            /\ last' = [op |-> "try_cast", in |-> addr.raw, V |-> V,
                        outcome |-> IF r.ok THEN "ok" ELSE "err", out |-> r.v]
    /\ Frame

\* self.raise::<V>()
Raise ==
    /\ addr.live
    /\ OffsetInto("usize", addr.T)
    /\ \E V \in TagTypes :
        LET r == raise(addr.T, addr.raw, V)
        IN  /\ addr' = IF r.ok THEN [addr EXCEPT !.raw = r.v, !.U = V] ELSE addr
            /\ last' = [op |-> "raise", in |-> addr.raw, V |-> V,
                        outcome |-> IF r.ok THEN "ok" ELSE "panic", out |-> r.v]
    /\ Frame

\* self.lower::<V>()
Lower ==
    /\ addr.live
    /\ OffsetInto("usize", addr.T)
    /\ \E V \in TagTypes :
        LET r == lower(addr.T, addr.raw, V)
        IN  /\ addr' = IF r.ok THEN [addr EXCEPT !.raw = r.v, !.U = V] ELSE addr
            /\ last' = [op |-> "lower", in |-> addr.raw, V |-> V,
                        outcome |-> IF r.ok THEN "ok" ELSE "panic", out |-> r.v]
    /\ Frame

Next == FromRaw \/ New \/ TryCast \/ Raise \/ Lower

Spec == Init /\ [][Next]_vars

(***************************************************************************)
(* Properties of the address state machine.                                *)
(***************************************************************************)
\* C1: every call of raise::<V>() returns the smallest r >= v with
\* r % align_of(V) = 0. Stated for the calls where such an r exists in T at
\* all (raw values above the largest multiple have no answer of that type).
C1_RaiseSmallestMultiple ==
    (/\ last.op = "raise"
     /\ \E r \in Values(addr.T) : r >= last.in /\ r % align_of(last.V) = 0)
    => /\ last.outcome = "ok"
       /\ last.out >= last.in
       /\ last.out % align_of(last.V) = 0
       /\ \A r \in last.in .. (last.out - 1) : r % align_of(last.V) /= 0

\* C2: every call of lower::<V>() returns the largest r <= v with
\* r % align_of(V) = 0.
C2_LowerLargestMultiple ==
    last.op = "lower"
    => /\ last.outcome = "ok"
       /\ last.out <= last.in
       /\ last.out % align_of(last.V) = 0
       /\ \A r \in (last.out + 1) .. last.in : r % align_of(last.V) /= 0
       /\ addr.raw = last.out

\* 9 lowered to alignment 8 gives 8
C2_Witness ==
    /\ last.op = "lower"
    /\ last.in = 9
    /\ align_of(last.V) = 8
    /\ last.out = 8

\* C3: Address::new(v) panics exactly when v % align_of(U) /= 0, and
\* otherwise yields an Address<usize, U> whose raw value is v.
C3_NewPanicsIffUnaligned ==
    last.op = "new"
    => /\ (last.outcome = "panic") <=> (last.in % align_of(last.V) /= 0)
       /\ last.outcome = "panic" => ~addr.live
       /\ last.outcome /= "panic"
            => /\ addr.live
               /\ addr.raw = last.in
               /\ addr.T = "usize"
               /\ addr.U = last.V

\* new panics on a value that is even but not a multiple of 4
C3_Witness ==
    /\ last.op = "new"
    /\ last.outcome = "panic"
    /\ align_of(last.V) = 4
    /\ last.in % 4 = 2

\* C4: try_cast::<V>() returns Err exactly when the raw value is not a
\* multiple of align_of(V), and otherwise an Address<T, V> of the same raw
\* value.
C4_TryCastErrIffUnaligned ==
    last.op = "try_cast"
    => /\ (last.outcome = "err") <=> (last.in % align_of(last.V) /= 0)
       /\ last.outcome /= "err"
            => /\ last.out = last.in
               /\ addr.raw = last.in
               /\ addr.U = last.V

\* a successful cast of a u64 address above the range of u32
C4_Witness ==
    /\ last.op = "try_cast"
    /\ last.outcome = "ok"
    /\ addr.T = "u64"
    /\ last.in > MaxOf("u32")
    /\ align_of(last.V) = 4

\* C5: every address obtained through new, raise, lower and successful
\* try_cast has a raw value that is a multiple of align_of(U) of its tag.
C5_AlignmentInvariant ==
    addr.live => addr.raw % align_of(addr.U) = 0

\* raise returned although its intermediate sum wrapped
C5_Witness ==
    /\ last.op = "raise"
    /\ last.outcome = "ok"
    /\ last.in + align_of(last.V) > MaxOf(addr.T)
    /\ align_of(last.V) > 1
    /\ addr.U = last.V

(***************************************************************************)
(* b + (a - b): two addresses a and b of one width T and one tag U, the    *)
(* subtraction a - b and then the addition of its Offset to b.             *)
(***************************************************************************)
\* the raw values an Address<T, U> built by a checked constructor can hold
Aligned(T, U) == { v \in Values(T) : v % align_of(U) = 0 }

InitInverse ==
    /\ target \in Targets
    /\ usize_bits = (IF target = 32 THEN U32Bits ELSE U64Bits)
    /\ overflow_checks \in BOOLEAN
    /\ addr = NoAddr
    /\ last = NoCall
    /\ pages = NoPages
    /\ conv = NoConv
    /\ \E T \in IntTypes : \E U \in TagTypes :
        /\ OffsetInto("usize", T)
        /\ \E a \in Aligned(T, U) : \E b \in Aligned(T, U) :
            inv = [pc |-> "start", T |-> T, U |-> U, a |-> a, b |-> b,
                   items |-> 0, res |-> 0]

FrameInverse == UNCHANGED <<target, usize_bits, overflow_checks, addr, last, pages, conv>>

\* let off = a - b
SubAddress ==
    /\ inv.pc = "start"
    /\ LET r == sub_address(inv.T, inv.a, inv.b, inv.U)
       IN  inv' = IF r.ok
                  THEN [inv EXCEPT !.pc = "subtracted", !.items = r.v]
                  ELSE [inv EXCEPT !.pc = "panicked"]
    /\ FrameInverse

\* b + off
AddOffset ==
    /\ inv.pc = "subtracted"
    /\ LET r == add_offset(inv.T, inv.b, inv.items, inv.U)
       IN  inv' = IF r.ok
                  THEN [inv EXCEPT !.pc = "done", !.res = r.v]
                  ELSE [inv EXCEPT !.pc = "panicked"]
    /\ FrameInverse

NextInverse == SubAddress \/ AddOffset

SpecInverse == InitInverse /\ [][NextInverse]_vars

\* C6 as stated: for every pair a, b of one tag and width, b + (a - b) is
\* computed and equals a.
C6_InverseEveryPair ==
    /\ inv.pc /= "panicked"
    /\ inv.pc = "done" => inv.res = inv.a

\* C6 amended: when a >= b, size_of(U) > 0 and a - b is a multiple of
\* size_of(U), b + (a - b) is computed without a panic and equals a.
C6_InverseOnWholeItems ==
    (/\ inv.pc /= "off"
     /\ inv.a >= inv.b
     /\ size_of(inv.U) > 0
     /\ (inv.a - inv.b) % size_of(inv.U) = 0)
    => /\ inv.pc /= "panicked"
       /\ inv.pc = "subtracted" => inv.items * size_of(inv.U) = inv.a - inv.b
       /\ inv.pc = "done" => inv.res = inv.a

\* two items of a 6-byte type apart
C6_Witness ==
    /\ inv.pc = "done"
    /\ size_of(inv.U) = 6
    /\ inv.a = inv.b + 12
    /\ inv.items = 2
    /\ inv.res = inv.a

(***************************************************************************)
(* Page and Pages                                                          *)
(***************************************************************************)
\* Page::SIZE
PAGE_SIZE == 4096

\* isize::MAX, the most bytes a Vec may hold
IsizeMax == Pow2(usize_bits - 1) - 1

\* what the bytes of a buffer that was never written may read as
JunkBytes == {0, 255}

\* the slices handed in: 1, 2, .., n for every length up to MaxDataLen
DataSet == { [i \in 1 .. n |-> i] : n \in 0 .. MaxDataLen }

SizeMenu == {0, 1, 5, PAGE_SIZE, PAGE_SIZE + 1, MaxOf("usize")}

OffsetMenu ==
    {0, 2, PAGE_SIZE - 1, PAGE_SIZE, PAGE_SIZE + 2, MaxOf("usize")}

Min(x, y) == IF x < y THEN x ELSE y

\* Vec::with_capacity(count) followed by set_len(count): count pages whose
\* bytes were never written
uninit(count, junk) == [i \in 1 .. count * PAGE_SIZE |-> junk]

\* fill(0) that stops one byte short of the end of the slice
fill_short(buf, lo, hi) ==
    [i \in 1 .. Len(buf) |-> IF lo < i /\ i < hi THEN 0 ELSE buf[i]]

\* slice.fill(0) on the bytes lo .. hi - 1 (0-based) of the buffer
fill(buf, lo, hi) ==
    [i \in 1 .. Len(buf) |-> IF lo < i /\ i <= hi THEN 0 ELSE buf[i]]

\* bytes.copy_from_slice(data) on the bytes at .. at + data.len() - 1
copy_from_slice(buf, at, data) ==
    [i \in 1 .. Len(buf) |->
        IF at < i /\ i <= at + Len(data) THEN data[i - at] ELSE buf[i]]

\* (offset + size + Page::SIZE - 1) / Page::SIZE
page_count(size, offset) ==
    div("usize",
        sub("usize",
            add("usize", add("usize", Ok(offset), Ok(size)), Ok(PAGE_SIZE)),
            Ok(1)),
        Ok(PAGE_SIZE))

\* Pages::copy_into. alloc_ok is the allocator's answer; junk is what the
\* fresh allocation holds.
copy_into(data, size, offset, junk, alloc_ok) ==
    LET d == SubSeq(data, 1, Min(size, Len(data)))
        count == page_count(size, offset)
    IN  IF ~count.ok
        THEN [outcome |-> "panic_overflow", buf |-> <<>>]
        ELSE IF count.v > 0 /\ (count.v * PAGE_SIZE > IsizeMax \/ ~alloc_ok)
        THEN [outcome |-> "alloc_failed", buf |-> <<>>]
        ELSE IF offset > count.v * PAGE_SIZE
        THEN [outcome |-> "panic_split", buf |-> <<>>]
        ELSE IF Len(d) > count.v * PAGE_SIZE - offset
        THEN [outcome |-> "panic_split", buf |-> <<>>]
        ELSE LET b0 == uninit(count.v, junk)
                 b1 == fill(b0, 0, offset)
                 b2 == copy_from_slice(b1, offset, d)
                 b3 == fill(b2, offset + Len(d), Len(b2))
             IN  [outcome |-> "ok", buf |-> b3]

InitPages ==
    /\ target \in Targets
    /\ usize_bits = (IF target = 32 THEN PagesUsizeBits ELSE PagesUsizeBits + 1)
    /\ overflow_checks \in BOOLEAN
    /\ addr = NoAddr
    /\ last = NoCall
    /\ inv = NoInv
    /\ conv = NoConv
    /\ pages = [pc |-> "idle", data |-> <<>>, size |-> 0, offset |-> 0,
                outcome |-> "ok", buf |-> <<>>]

FramePages ==
    UNCHANGED <<target, usize_bits, overflow_checks, addr, last, inv, conv>>

Call(data, size, offset, r) ==
    pages' = [pc |-> IF r.outcome = "ok" THEN "returned" ELSE "panicked",
              data |-> data, size |-> size, offset |-> offset,
              outcome |-> r.outcome, buf |-> r.buf]

\* Pages::copy_into(data, size, offset)
CopyInto ==
    /\ pages.pc = "idle"
    /\ \E data \in DataSet : \E size \in SizeMenu : \E offset \in OffsetMenu :
       \E junk \in JunkBytes : \E alloc_ok \in BOOLEAN :
        Call(data, size, offset, copy_into(data, size, offset, junk, alloc_ok))
    /\ FramePages

\* Pages::copy(data)
Copy ==
    /\ pages.pc = "idle"
    /\ \E data \in DataSet : \E junk \in JunkBytes : \E alloc_ok \in BOOLEAN :
        Call(data, Len(data), 0, copy_into(data, Len(data), 0, junk, alloc_ok))
    /\ FramePages

NextPages == CopyInto \/ Copy

SpecPages == InitPages /\ [][NextPages]_vars

\* ceil(x / PAGE_SIZE), over the naturals
CeilPages(x) == (x + PAGE_SIZE - 1) \div PAGE_SIZE

\* C7: the buffer copy_into returns is ceil((offset + size) / 4096) * 4096
\* bytes long, hence at least offset + size bytes.
C7_BufferLength ==
    pages.pc = "returned"
    => /\ Len(pages.buf) = CeilPages(pages.offset + pages.size) * PAGE_SIZE
       /\ Len(pages.buf) >= pages.offset + pages.size

\* C8: in the returned buffer, with n = min(size, data.len()), bytes
\* [0, offset) are zero, bytes [offset, offset + n) are data[0..n] and all
\* later bytes are zero, whatever the fresh allocation held.
C8_BufferContents ==
    pages.pc = "returned"
    => LET n == Min(pages.size, Len(pages.data))
       IN  /\ pages.offset + n <= Len(pages.buf)
           /\ \A i \in 1 .. Len(pages.buf) :
                pages.buf[i] =
                    IF pages.offset < i /\ i <= pages.offset + n
                    THEN pages.data[i - pages.offset]
                    ELSE 0

\* data = [1, 2, 3], size = 5, offset = 2: one page, 0 0 1 2 3 0 0 ...
C8_Witness ==
    /\ pages.pc = "returned"
    /\ pages.data = <<1, 2, 3>>
    /\ pages.size = 5
    /\ pages.offset = 2
    /\ Len(pages.buf) = PAGE_SIZE
    /\ SubSeq(pages.buf, 1, 6) = <<0, 0, 1, 2, 3, 0>>

\* C9: copy_into fails only through the allocator: no call panics in its
\* own arithmetic or in its slice splitting.
C9_FailsOnlyInAllocator ==
    pages.pc /= "idle" => pages.outcome \in {"ok", "alloc_failed"}

(***************************************************************************)
(* Width conversions: one Address or Offset value taken through a chain of *)
(* the From impls that the target offers.                                  *)
(***************************************************************************)
InitConv ==
    /\ target \in Targets
    /\ usize_bits = (IF target = 32 THEN U32Bits ELSE U64Bits)
    /\ overflow_checks \in BOOLEAN
    /\ addr = NoAddr
    /\ last = NoCall
    /\ inv = NoInv
    /\ pages = NoPages
    /\ \E kind \in {"Address", "Offset"} : \E T \in IntTypes :
       \E v \in Values(T) :
        conv = [pc |-> "live", kind |-> kind, T |-> T, v |-> v,
                orig |-> v, hops |-> 0]

FrameConv ==
    UNCHANGED <<target, usize_bits, overflow_checks, addr, last, inv, pages>>

\* Address::<B, U>::from(Address<A, U>)
AddressConvert ==
    /\ conv.pc = "live"
    /\ conv.kind = "Address"
    /\ conv.hops < MaxHops
    /\ \E B \in IntTypes :
        /\ <<conv.T, B>> \in AddressFrom
        /\ conv' = [conv EXCEPT !.T = B, !.v = From(B, conv.v),
                                !.hops = conv.hops + 1]
    /\ FrameConv

\* Offset::<B, U>::from(Offset<A, U>)
OffsetConvert ==
    /\ conv.pc = "live"
    /\ conv.kind = "Offset"
    /\ conv.hops < MaxHops
    /\ \E B \in IntTypes :
        /\ <<conv.T, B>> \in OffsetFrom
        /\ conv' = [conv EXCEPT !.T = B, !.v = From(B, conv.v),
                                !.hops = conv.hops + 1]
    /\ FrameConv

NextConv == AddressConvert \/ OffsetConvert

SpecConv == InitConv /\ [][NextConv]_vars

\* C10: every chain of offered width conversions keeps the numeric value;
\* a 64-bit target offers u32->usize, usize->u64, u64->usize and not
\* usize->u32; a 32-bit target offers u32->usize, usize->u32, usize->u64 and
\* not u64->usize; Offset offers what Address offers.
C10_ConversionsLossless ==
    /\ conv.pc = "live" => conv.v = conv.orig
    /\ target = 64 =>
         AddressFrom = {<<"u32", "usize">>, <<"usize", "u64">>, <<"u64", "usize">>}
    /\ target = 32 =>
         AddressFrom = {<<"u32", "usize">>, <<"usize", "u32">>, <<"usize", "u64">>}
    /\ OffsetFrom = AddressFrom

\* an address above the range of u32 taken usize -> u64 -> usize
C10_Witness ==
    /\ conv.pc = "live"
    /\ conv.kind = "Address"
    /\ target = 64
    /\ conv.T = "usize"
    /\ conv.hops = 2
    /\ conv.v > MaxOf("u32")

\* C11: raise::<V>() and lower::<V>() return an already aligned raw value
\* unchanged, the largest aligned value of T included (hence applying either
\* twice equals applying it once).
C11_IdentityOnAligned ==
    (/\ last.op \in {"raise", "lower"}
     /\ last.in % align_of(last.V) = 0)
    => /\ last.outcome = "ok"
       /\ last.out = last.in
       /\ addr.raw = last.in

(***************************************************************************)
(* Offset arithmetic on one aligned Address<T, U>: + Offset, - Offset, +=  *)
(* and -=, none of which tests the alignment of its result. `last.in` is   *)
(* the item count of the Offset.                                           *)
(***************************************************************************)
\* the item counts handed in: small ones, and ones whose byte count
\* overflows T
ItemCounts(T) == {0, 1, 2, 3, MaxOf(T) \div 2 + 1, MaxOf(T)}

InitOffset ==
    /\ target \in Targets
    /\ usize_bits = (IF target = 32 THEN U32Bits ELSE U64Bits)
    /\ overflow_checks \in BOOLEAN
    /\ last = NoCall
    /\ inv = NoInv
    /\ pages = NoPages
    /\ conv = NoConv
    /\ \E T \in IntTypes : \E U \in TagTypes :
        /\ OffsetInto("usize", T)
        /\ \E value \in Aligned(T, U) :
            addr = [live |-> TRUE, raw |-> value, T |-> T, U |-> U]

\* the address and the call record after an operator with result r
Moved(op, items, r) ==
    /\ addr' = IF r.ok THEN [addr EXCEPT !.raw = r.v] ELSE addr
    /\ last' = [op |-> op, in |-> items, V |-> addr.U,
                outcome |-> IF r.ok THEN "ok" ELSE "panic", out |-> r.v]

\* self + Offset::from_items(items)
AddressAdd ==
    /\ addr.live
    /\ \E items \in ItemCounts(addr.T) :
        Moved("add", items, add_offset(addr.T, addr.raw, items, addr.U))
    /\ Frame

\* self += Offset::from_items(items)
AddressAddAssign ==
    /\ addr.live
    /\ \E items \in ItemCounts(addr.T) :
        Moved("add_assign", items, add_assign(addr.T, addr.raw, items, addr.U))
    /\ Frame

\* self - Offset::from_items(items)
AddressSub ==
    /\ addr.live
    /\ \E items \in ItemCounts(addr.T) :
        Moved("sub", items, sub_offset(addr.T, addr.raw, items, addr.U))
    /\ Frame

\* self -= Offset::from_items(items)
AddressSubAssign ==
    /\ addr.live
    /\ \E items \in ItemCounts(addr.T) :
        Moved("sub_assign", items, sub_assign(addr.T, addr.raw, items, addr.U))
    /\ Frame

NextOffset == AddressAdd \/ AddressAddAssign \/ AddressSub \/ AddressSubAssign

SpecOffset == InitOffset /\ [][NextOffset]_vars

\* C12: an aligned Address<T, U> stays a multiple of align_of(U) under any
\* sequence of + Offset, - Offset, += and -= with any item counts, wrapping
\* arithmetic included (size_of(U) is a multiple of align_of(U), which is a
\* power of two).
C12_OffsetsKeepAlignment ==
    /\ addr.live
    /\ addr.raw % align_of(addr.U) = 0
    /\ last.outcome = "ok" /\ last.op /= "none" => addr.raw = last.out

\* an addition whose byte count wrapped, on a tag of alignment 2 and size 6
C12_Witness ==
    /\ last.op \in {"add", "add_assign"}
    /\ last.outcome = "ok"
    /\ align_of(addr.U) = 2
    /\ size_of(addr.U) = 6
    /\ last.in * size_of(addr.U) > MaxOf(addr.T)
    /\ addr.raw = (2 * MaxOf(addr.T)) % Modulus(addr.T)

====
